---- MODULE Spec2Model ----
(***************************************************************************)
(* A model of the agent/order/task execution engine of obs-control-panel   *)
(* (src/obs-control-panel/src/agent.ts, class AgentManager).               *)
(*                                                                         *)
(* JavaScript runs each synchronous stretch of code to completion, so the  *)
(* only places where another caller or another executeOrder call can run   *)
(* are the two awaits: `await task.action()` (agent.ts:114) and            *)
(* `await this.executeTask(...)` (agent.ts:84).  Inside a synchronous      *)
(* stretch the only outside code that runs is the event handlers called by *)
(* emit (agent.ts:139).  The variable cur names the executeOrder call that *)
(* is inside a synchronous stretch (0: none): while cur # 0 only that call *)
(* steps, and every state with cur # 0 is a state in which emit is calling *)
(* the handlers of one event, i.e. a state the handlers observe.           *)
(*                                                                         *)
(* Task actions and event handlers are code of the caller.  An action is   *)
(* an opaque operation: when it is called it throws, or it returns a       *)
(* promise that settles with success or with a failure message (or never   *)
(* settles).  A handler returns, throws, or                                *)
(* calls the engine: emit calls it synchronously (agent.ts:139), so an     *)
(* executeOrder it calls runs, inside the publishing call's stretch, up to *)
(* its own first await or its end, and then the publishing call goes on    *)
(* from where it was.  The steps of such a call are the steps of any       *)
(* executeOrder call; its record names the call whose publish it was made  *)
(* in (by) and tells whether that publish is still waiting for it          *)
(* (nested).  The other methods are modelled as called between two         *)
(* stretches: createOrder and getStats publish nothing and touch no agent, *)
(* createAgent does nothing after its publish, and forEach does not call a *)
(* callback that `on` added while it runs.                                 *)
(* Identities made by crypto.randomUUID() are modelled by the position of  *)
(* the object in its table: a fresh identity per object.                   *)
(***************************************************************************)
EXTENDS Naturals, Sequences, FiniteSets

VARIABLES agents, orders, eventListeners, creations, calls, cur, queries,
          controller, ctlCalls, closed, stale

(* The AgentManager's state and the record of the calls made on it. *)
engineVars == <<agents, orders, eventListeners, creations, calls, cur, queries>>

(* The PlaywrightController's state, the record of the calls made on it    *)
(* and the browsers it has closed.                                         *)
browserVars == <<controller, ctlCalls, closed, stale>>

vars == <<engineVars, browserVars>>

(* Bounds of the model. *)
MaxAgents == 2
MaxOrders == 2
MaxTasks == 2
MaxCalls == 2
MaxHandlerCalls == 1
MaxReentrantTasks == 1
MaxReentrantListeners == 1
MaxListeners == 2
MaxQueries == 2
MaxFieldOrders == 1
MaxInitializes == 2
MaxCloses == 2
MaxPageCalls == 1
MaxSteps == 2
MaxStepsOverlapped == 1
MaxPlayInitializes == 1
MaxPlayCloses == 1

AgentIds == 1..MaxAgents
OrderIds == 1..MaxOrders

(* The event names the engine publishes (agent.ts:22,80,90,94,111,122). *)
Events == {"agentCreated", "orderStarted", "taskStarted", "taskCompleted",
           "orderCompleted", "orderFailed"}

(* What a subscribed callback does when it is called (agent.ts:139): it    *)
(* returns, it throws, or it calls executeOrder, dropping the promise, and *)
(* returns.                                                                *)
HandlerKinds == {"ok", "throw", "executeOrder"}

(* The callbacks that call no method of the engine. *)
Observers == {"ok", "throw"}

(* Failure messages a task action can reject with. *)
Messages == {"boom"}

Undefined == "undefined"

(* ---------------------------------------------------------------- errors *)

NoError == [kind |-> "none", subject |-> 0, detail |-> ""]

(* A not-found check that raises the error of the busy check. *)
AgentNotFoundAsBusy(agentId) == [kind |-> "AgentBusy", subject |-> agentId, detail |-> ""]

(* new Error(`Agent ${agentId} not found`) *)
AgentNotFound(agentId) == [kind |-> "AgentNotFound", subject |-> agentId, detail |-> ""]

(* new Error(`Agent ${agent.name} is already busy`) *)
AgentBusyError(agentId) == [kind |-> "AgentBusy", subject |-> agentId, detail |-> ""]

(* new Error(`Task ${task.name} failed: ${task.error}`) *)
TaskFailedError(i, t) == [kind |-> "TaskFailed", subject |-> i, detail |-> t.error]

(* Whatever a throwing handler throws. *)
HandlerFault == [kind |-> "HandlerFault", subject |-> 0, detail |-> ""]

(* ----------------------------------------------------------------- types *)

(* An agent that is created busy. *)
NewAgentBusy == [status |-> "busy", currentOrder |-> 0, orderHistory |-> <<>>]

(* createAgent's object literal. currentOrder = 0 is `undefined`. *)
NewAgent == [status |-> "idle", currentOrder |-> 0, orderHistory |-> <<>>]

(* A task spec, an element of createOrder's `tasks` argument, which is of  *)
(* type Omit<Task, "id" | "status">: its name, description and action,     *)
(* named by its place in the argument, and the optional fields of Task     *)
(* (types.ts), which the caller may have set: result, error, startTime,    *)
(* endTime (of a timestamp the model keeps whether it is set).             *)
CarriedSpecs(i) ==
  [place : {i}, result : {Undefined, "Success"}, error : {Undefined} \cup Messages,
   startTime : BOOLEAN, endTime : BOOLEAN]

(* The spec at place i that sets none of the optional fields. *)
BareSpec(i) ==
  [place |-> i, result |-> Undefined, error |-> Undefined,
   startTime |-> FALSE, endTime |-> FALSE]

(* The `tasks` argument of createOrder with n specs that set none of the   *)
(* optional fields.                                                        *)
TaskSpecs(n) == [i \in 1..n |-> BareSpec(i)]

(* Every `tasks` argument of createOrder with n specs. *)
RECURSIVE SpecSeqs(_)
SpecSeqs(n) ==
  IF n = 0 THEN {<<>>}
  ELSE {Append(specs, spec) : specs \in SpecSeqs(n - 1), spec \in CarriedSpecs(n)}

(* One task as createOrder builds it from a spec (agent.ts:53-57): the     *)
(* spread copies every field of the spec, then status is set to pending.   *)
NewTask(spec) ==
           [spec |-> spec.place,
            status |-> "pending", result |-> spec.result, error |-> spec.error,
            startTime |-> spec.startTime, endTime |-> spec.endTime]

(* An order whose tasks are the specs in the opposite sequence. *)
NewOrderReversed(specs) ==
  [status |-> "pending",
   tasks |-> [i \in DOMAIN specs |-> NewTask(specs[Len(specs) + 1 - i])]]

(* createOrder's object literal for the given task specs (agent.ts:49-60): *)
(* tasks.map keeps the sequence.                                           *)
NewOrder(specs) ==
  [status |-> "pending", tasks |-> [i \in DOMAIN specs |-> NewTask(specs[i])]]

(* playwright-controller.ts:8-10.  0 is null; a browser is named by the    *)
(* order in which it was launched, and the page opened in browser b is     *)
(* named b.                                                                *)
NewController == [browser |-> 0, page |-> 0, isConnected |-> FALSE]

(* ------------------------------------------------- executeOrder, pieces *)

(* A busy check that tests for the wrong status. *)
IsBusyWrongStatus(ag) == ag.status = "error"

(* agent.ts:73 *)
IsBusy(ag) == ag.status = "busy"

(* A marking that attaches the order but forgets the status. *)
MarkBusyNoStatus(ag, o) == [ag EXCEPT !.currentOrder = o]

(* agent.ts:77-78 *)
MarkBusy(ag, o) == [ag EXCEPT !.currentOrder = o, !.status = "busy"]

(* agent.ts:79 *)
OrderInProgress(ord) == [ord EXCEPT !.status = "in_progress"]

(* agent.ts:89 *)
OrderCompleted(ord) == [ord EXCEPT !.status = "completed"]

(* agent.ts:92 *)
OrderFailed(ord) == [ord EXCEPT !.status = "failed"]

(* agent.ts:93 *)
AgentError(ag) == [ag EXCEPT !.status = "error"]

(* A finally block that resets the status whatever it is. *)
FinallyAlwaysIdle(ag, o) ==
  [ag EXCEPT !.orderHistory = Append(@, o),
             !.currentOrder = 0,
             !.status = "idle"]

(* A finally block that forgets to clear the current order. *)
FinallyKeepsCurrentOrder(ag, o) ==
  [ag EXCEPT !.orderHistory = Append(@, o),
             !.status = IF @ # "error" THEN "idle" ELSE @]

(* agent.ts:96-102, the finally block *)
Finally(ag, o) ==
  [ag EXCEPT !.orderHistory = Append(@, o),
             !.currentOrder = 0,
             !.status = IF @ # "error" THEN "idle" ELSE @]

(* agent.ts:85 *)
TaskHasFailed(t) == t.status = "failed"

(* -------------------------------------------------- executeTask, pieces *)

(* agent.ts:109-110 *)
TaskRunning(t) == [t EXCEPT !.status = "running", !.startTime = TRUE]

(* agent.ts:115-116 *)
TaskSucceeded(t) == [t EXCEPT !.status = "completed", !.result = "Success"]

(* agent.ts:118-119 *)
TaskFailed(t, m) == [t EXCEPT !.status = "failed", !.error = m]

(* agent.ts:121 *)
TaskEnded(t) == [t EXCEPT !.endTime = TRUE]

(* ------------------------------------------------------------------ emit *)

TotalListeners == Len(eventListeners.agentCreated) + Len(eventListeners.orderStarted)
                  + Len(eventListeners.taskStarted) + Len(eventListeners.taskCompleted)
                  + Len(eventListeners.orderCompleted) + Len(eventListeners.orderFailed)

(* agent.ts:136-141: forEach calls the callbacks in order and does not     *)
(* catch: emit throws as soon as one callback throws.                      *)
EmitThrows(ev) == \E i \in DOMAIN eventListeners[ev] : eventListeners[ev][i] = "throw"

(* agent.ts:139: how many of the callbacks registered for ev one emit      *)
(* calls: forEach stops at the first callback that throws.                 *)
Invoked(ev) ==
  LET l == eventListeners[ev]
  IN  IF EmitThrows(ev)
      THEN CHOOSE i \in DOMAIN l : l[i] = "throw" /\ \A j \in 1..(i - 1) : l[j] # "throw"
      ELSE Len(l)

(* agent.ts:137-139: the callbacks one emit of ev calls, by their place in *)
(* the list registered under ev, in the sequence they are called: forEach  *)
(* goes through that list alone, from its first entry.                     *)
Called(ev) == [i \in 1..Invoked(ev) |-> i]

(* agent.ts:137-139: how many of the callbacks registered for ev one emit   *)
(* does not call.                                                          *)
Skipped(ev) == Len(eventListeners[ev]) - Invoked(ev)

(* ------------------------------------------------------------ the state *)

(* agents: the Map of agent.ts:7, indexed by identity (agent i is the i-th *)
(* created).  orders: the Order objects createOrder has returned.          *)
(* eventListeners: the Map of agent.ts:8.  creations: how each createAgent *)
(* call ended.  calls: one record per executeOrder call made so far.       *)
(* queries: what each getStats call made so far was asked and what it      *)
(* returned or threw.  controller: the fields of the PlaywrightController  *)
(* (playwright-controller.ts:8-10).  ctlCalls: one record per call made on *)
(* the controller.  closed: the browsers whose close has completed.        *)
(* stale: no initialize has succeeded yet, or a close called after the     *)
(* last successful initialize has returned.                                *)
Init ==
  /\ agents = <<>>
  /\ orders = <<>>
  /\ eventListeners = [ev \in Events |-> <<>>]
  /\ creations = <<>>
  /\ calls = <<>>
  /\ cur = 0
  /\ queries = <<>>
  /\ controller = NewController
  /\ ctlCalls = <<>>
  /\ closed = {}
  /\ stale = TRUE

(* The record of an executeOrder call: its arguments, where it stands      *)
(* (pc, idx: the task of the for loop), the exception executeTask's        *)
(* promise was rejected with (thrown), how it ended (outcome, error), and  *)
(* what it did: the events it published (and for each how many registered  *)
(* callbacks were not called), the tasks whose action it invoked and how   *)
(* they settled, and what it found when it was called.  by: the call in    *)
(* whose publish a handler made this call (0: a caller made it); nested:   *)
(* that publish is waiting for this call to reach its first await or its   *)
(* end; handled: how many callbacks of the event the call is publishing    *)
(* have been called and have returned.                                     *)
NewCall(agentId, o, by) ==
  [agentId |-> agentId, order |-> o, pc |-> "done", idx |-> 0,
   by |-> by, nested |-> FALSE, handled |-> 0,
   thrown |-> NoError, outcome |-> "raised", error |-> NoError,
   published |-> <<>>, skipped |-> <<>>, invoked |-> <<>>, settled |-> <<>>,
   preOrder |-> orders[o].status,
   preAgent |-> IF agentId \in DOMAIN agents THEN agents[agentId].status ELSE "absent"]

(* agent.ts:136-141: emit has gone through the callbacks of ev. *)
Publish(call, ev) == [call EXCEPT !.published = Append(@, <<ev, call.idx>>),
                                   !.skipped = Append(@, Skipped(ev)),
                                   !.handled = 0]

(* The call reaches an await or its end: the runtime goes on with the      *)
(* publish the call was made in, if that publish is waiting for it.        *)
Suspended(call) == [call EXCEPT !.nested = FALSE]

Resumes(call) == IF call.nested THEN call.by ELSE 0

(* The calls made by callers, and those made by handlers. *)
CallerCalls == {c \in DOMAIN calls : calls[c].by = 0}

HandlerCalls == {c \in DOMAIN calls : calls[c].by # 0}

(* ------------------------------------------------------------- createAgent *)

(* agent.ts:13-24.  The agent is stored before agentCreated is published,  *)
(* so it stays stored when a handler throws and createAgent raises.  The   *)
(* creation record keeps how the call ended, that agentCreated was emitted *)
(* once (agent.ts:22), with which agent, and with how many callbacks left  *)
(* uncalled.                                                               *)
createAgent ==
  /\ cur = 0
  /\ Len(agents) < MaxAgents
  /\ agents' = Append(agents, NewAgent)
  /\ creations' = Append(creations,
         [outcome |-> IF EmitThrows("agentCreated") THEN "raised" ELSE "returned",
          published |-> 1,
          agent |-> Len(agents) + 1,
          skipped |-> Skipped("agentCreated")])
  /\ UNCHANGED <<orders, eventListeners, calls, cur, queries, browserVars>>

(* agent.ts:29-31: Map.get, as a sequence: <<agent>> when the id is in the  *)
(* map, <<>> for `undefined`.                                              *)
getAgent(agentId) ==
  IF agentId \in DOMAIN agents THEN <<agents[agentId]>> ELSE <<>>

(* ------------------------------------------------------------- createOrder *)

(* agent.ts:43-62 *)
createOrder(specs) ==
  /\ cur = 0
  /\ Len(orders) < MaxOrders
  /\ orders' = Append(orders, NewOrder(specs))
  /\ UNCHANGED <<agents, eventListeners, creations, calls, cur, queries, browserVars>>

(* ---------------------------------------------------------------------- on *)

(* agent.ts:129-134 *)
on(ev, kind) ==
  /\ cur = 0
  /\ TotalListeners < MaxListeners
  /\ eventListeners' = [eventListeners EXCEPT ![ev] = Append(@, kind)]
  /\ UNCHANGED <<agents, orders, creations, calls, cur, queries, browserVars>>

(* ------------------------------------------------------------ executeOrder *)

(* The for loop of agent.ts:83 moving on from task i (0: entering the     *)
(* loop) in call c, whose record is now call: executeTask of the next     *)
(* task up to its emit (agent.ts:109-111), or, past the last task,         *)
(* agent.ts:89 up to the emit of agent.ts:90.                              *)
LoopFrom(c, call, i) ==
  LET o == call.order
  IN  IF i < Len(orders[o].tasks)
      THEN /\ orders' = [orders EXCEPT ![o].tasks[i + 1] = TaskRunning(@)]
           /\ calls' = [calls EXCEPT ![c] = [call EXCEPT !.pc = "taskStarted",
                                                        !.idx = i + 1]]
           /\ UNCHANGED agents
      ELSE /\ orders' = [orders EXCEPT ![o] = OrderCompleted(@)]
           /\ calls' = [calls EXCEPT ![c] = [call EXCEPT !.pc = "orderCompleted"]]
           /\ UNCHANGED agents

(* The catch block of agent.ts:91-93, up to the emit of agent.ts:94, with  *)
(* err the exception caught. *)
Catch(c, call, err) ==
  /\ orders' = [orders EXCEPT ![call.order] = OrderFailed(@)]
  /\ agents' = [agents EXCEPT ![call.agentId] = AgentError(@)]
  /\ calls' = [calls EXCEPT ![c] = [call EXCEPT !.pc = "orderFailed", !.error = err]]

(* The finally block of agent.ts:96-102 and the end of the call: it        *)
(* returns, or raises err. *)
Finish(c, call, err) ==
  /\ agents' = [agents EXCEPT ![call.agentId] = Finally(@, call.order)]
  /\ calls' = [calls EXCEPT ![c] = [Suspended(call) EXCEPT
                  !.pc = "done",
                  !.outcome = IF err = NoError THEN "returned" ELSE "raised",
                  !.error = err]]
  /\ UNCHANGED orders

(* agent.ts:67-80: executeOrder, up to the emit of orderStarted, called by *)
(* a caller (by = 0) or by a handler in a publish of the call by; made is  *)
(* the record of the calls so far.  A call that throws at agent.ts:70 or   *)
(* 74 is over at once.                                                     *)
Enter(agentId, o, by, made) ==
  IF agentId \notin DOMAIN agents
  THEN /\ calls' = Append(made, [NewCall(agentId, o, by) EXCEPT
                                   !.error = AgentNotFound(agentId)])
       /\ UNCHANGED <<agents, orders, cur>>
  ELSE IF IsBusy(agents[agentId])
  THEN /\ calls' = Append(made, [NewCall(agentId, o, by) EXCEPT
                                   !.error = AgentBusyError(agentId)])
       /\ UNCHANGED <<agents, orders, cur>>
  ELSE /\ agents' = [agents EXCEPT ![agentId] = MarkBusy(@, o)]
       /\ orders' = [orders EXCEPT ![o] = OrderInProgress(@)]
       /\ calls' = Append(made, [NewCall(agentId, o, by) EXCEPT
                                   !.pc = "orderStarted", !.outcome = "pending",
                                   !.nested = (by # 0)])
       /\ cur' = Len(calls) + 1

(* agent.ts:67-80: a caller calls executeOrder. *)
executeOrder(agentId, o) ==
  /\ cur = 0
  /\ Cardinality(CallerCalls) < MaxCalls
  /\ o \in DOMAIN orders
  /\ Enter(agentId, o, 0, calls)
  /\ UNCHANGED <<eventListeners, creations, queries, browserVars>>

(* agent.ts:139 and 67-80: in the publish call c is making, forEach calls  *)
(* the i-th callback, which calls executeOrder.  No callback before it     *)
(* throws (forEach would not get as far), and the callbacks between the    *)
(* last one that called the engine and this one have returned.  The        *)
(* callback catches nothing: executeOrder is async and throws nothing at   *)
(* its caller.                                                             *)
handlerExecuteOrder(c, i, agentId, o) ==
  /\ cur = c
  /\ c \in DOMAIN calls
  /\ calls[c].pc \in Events
  /\ i \in DOMAIN eventListeners[calls[c].pc]
  /\ i > calls[c].handled
  /\ eventListeners[calls[c].pc][i] = "executeOrder"
  /\ \A j \in 1..(i - 1) : eventListeners[calls[c].pc][j] # "throw"
  /\ Cardinality(HandlerCalls) < MaxHandlerCalls
  /\ o \in DOMAIN orders
  /\ Enter(agentId, o, c, [calls EXCEPT ![c].handled = i])
  /\ UNCHANGED <<eventListeners, creations, queries, browserVars>>

(* agent.ts:80: orderStarted is published outside the try block, so a      *)
(* throwing handler ends the call with neither catch nor finally run.      *)
emitOrderStarted(c) ==
  /\ cur = c
  /\ calls[c].pc = "orderStarted"
  /\ IF EmitThrows("orderStarted")
     THEN /\ calls' = [calls EXCEPT ![c] =
                         [Suspended(Publish(@, "orderStarted")) EXCEPT
                            !.pc = "done", !.outcome = "raised", !.error = HandlerFault]]
          /\ cur' = Resumes(calls[c])
          /\ UNCHANGED <<agents, orders>>
     ELSE /\ LoopFrom(c, Publish(calls[c], "orderStarted"), 0)
          /\ cur' = c
  /\ UNCHANGED <<eventListeners, creations, queries, browserVars>>

(* agent.ts:111-121: taskStarted is published before executeTask's try, so *)
(* a throwing handler rejects executeTask's promise with the task left     *)
(* running; otherwise the action is invoked.  It returns its promise       *)
(* (m = ""), which is awaited, or it throws m when it is called: then      *)
(* nothing is awaited, and the catch and the finally of executeTask record *)
(* the failure and the end time in the same stretch, up to the emit of     *)
(* agent.ts:122.                                                           *)
emitTaskStarted(c, m) ==
  /\ cur = c
  /\ calls[c].pc = "taskStarted"
  /\ IF EmitThrows("taskStarted")
     THEN /\ calls' = [calls EXCEPT ![c] =
                         [Suspended(Publish(@, "taskStarted")) EXCEPT
                            !.pc = "awaitTask", !.thrown = HandlerFault]]
          /\ cur' = Resumes(calls[c])
          /\ UNCHANGED orders
     ELSE IF m = ""
     THEN /\ calls' = [calls EXCEPT ![c] =
                         [Suspended(Publish(@, "taskStarted")) EXCEPT
                            !.pc = "action", !.invoked = Append(@, calls[c].idx)]]
          /\ cur' = Resumes(calls[c])
          /\ UNCHANGED orders
     ELSE /\ orders' = [orders EXCEPT ![calls[c].order].tasks[calls[c].idx] =
                          TaskEnded(TaskFailed(@, m))]
          /\ calls' = [calls EXCEPT ![c] =
                         [Publish(@, "taskStarted") EXCEPT
                            !.pc = "taskCompleted",
                            !.invoked = Append(@, calls[c].idx),
                            !.settled = Append(@, "fail")]]
          /\ cur' = c
  /\ UNCHANGED <<agents, eventListeners, creations, queries, browserVars>>

(* agent.ts:114-121: the awaited action settles (fulfilled: m = "", or     *)
(* rejected with message m); executeTask resumes and records the outcome   *)
(* and the end time, up to the emit of agent.ts:122.                       *)
settleAction(c, m) ==
  /\ cur = 0
  /\ calls[c].pc = "action"
  /\ LET o == calls[c].order
         i == calls[c].idx
     IN  orders' = [orders EXCEPT ![o].tasks[i] =
                      TaskEnded(IF m = "" THEN TaskSucceeded(@) ELSE TaskFailed(@, m))]
  /\ calls' = [calls EXCEPT ![c].pc = "taskCompleted",
                            ![c].settled = Append(@, IF m = "" THEN "ok" ELSE "fail")]
  /\ cur' = c
  /\ UNCHANGED <<agents, eventListeners, creations, queries, browserVars>>

(* agent.ts:122: taskCompleted is published in executeTask's finally; a    *)
(* throwing handler rejects executeTask's promise.  Either way the         *)
(* `await this.executeTask(...)` of agent.ts:84 resumes in a later         *)
(* microtask.                                                              *)
emitTaskCompleted(c) ==
  /\ cur = c
  /\ calls[c].pc = "taskCompleted"
  /\ calls' = [calls EXCEPT ![c] = [Suspended(Publish(@, "taskCompleted")) EXCEPT
                  !.pc = "awaitTask",
                  !.thrown = IF EmitThrows("taskCompleted") THEN HandlerFault ELSE NoError]]
  /\ cur' = Resumes(calls[c])
  /\ UNCHANGED <<agents, orders, eventListeners, creations, queries, browserVars>>

(* agent.ts:84-93: executeOrder resumes after `await this.executeTask`:    *)
(* the rejection is caught, or the task's status is read (agent.ts:85) and *)
(* the loop goes on or throws.                                             *)
resumeOrder(c) ==
  /\ cur = 0
  /\ calls[c].pc = "awaitTask"
  /\ LET call == calls[c]
         t    == orders[call.order].tasks[call.idx]
         next == [call EXCEPT !.thrown = NoError]
     IN  IF call.thrown # NoError
         THEN Catch(c, next, call.thrown)
         ELSE IF TaskHasFailed(t)
         THEN Catch(c, next, TaskFailedError(call.idx, t))
         ELSE LoopFrom(c, next, call.idx)
  /\ cur' = c
  /\ UNCHANGED <<eventListeners, creations, queries, browserVars>>

(* agent.ts:90 and 96-102: orderCompleted is published inside the try, so  *)
(* a throwing handler is caught by agent.ts:91; otherwise finally runs and *)
(* the call returns.                                                       *)
emitOrderCompleted(c) ==
  /\ cur = c
  /\ calls[c].pc = "orderCompleted"
  /\ IF EmitThrows("orderCompleted")
     THEN /\ Catch(c, Publish(calls[c], "orderCompleted"), HandlerFault)
          /\ cur' = c
     ELSE /\ Finish(c, Publish(calls[c], "orderCompleted"), NoError)
          /\ cur' = Resumes(calls[c])
  /\ UNCHANGED <<eventListeners, creations, queries, browserVars>>

(* agent.ts:94-102: orderFailed is published in the catch block; then the  *)
(* caught error is thrown again (agent.ts:95), or the handler's exception  *)
(* takes its place; finally runs and the call raises.                      *)
emitOrderFailed(c) ==
  /\ cur = c
  /\ calls[c].pc = "orderFailed"
  /\ Finish(c, Publish(calls[c], "orderFailed"),
            IF EmitThrows("orderFailed") THEN HandlerFault ELSE calls[c].error)
  /\ cur' = Resumes(calls[c])
  /\ UNCHANGED <<eventListeners, creations, queries, browserVars>>

(* ---------------------------------------------------------------- getStats *)

(* agent.ts:163-166: the reduce over the first n entries of the history h. *)
RECURSIVE SumTasks(_, _)
SumTasks(h, n) ==
  IF n = 0 THEN 0 ELSE SumTasks(h, n - 1) + Len(orders[h[n]].tasks)

(* agent.ts:158-162: the entries of the history h whose order has status   *)
(* st.                                                                     *)
WithStatus(h, st) == Cardinality({i \in DOMAIN h : orders[h[i]].status = st})

(* A getStats that answers for an unknown agent as for one with no orders. *)
getStatsNeverFails(agentId) ==
  IF agentId \notin DOMAIN agents
  THEN [error |-> NoError, totalOrders |-> 0, completedOrders |-> 0,
        failedOrders |-> 0, totalTasks |-> 0]
  ELSE LET h == agents[agentId].orderHistory
       IN  [error |-> NoError,
            totalOrders |-> Len(h),
            completedOrders |-> WithStatus(h, "completed"),
            failedOrders |-> WithStatus(h, "failed"),
            totalTasks |-> SumTasks(h, Len(h))]

(* agent.ts:146-169: what getStats returns, or the error it throws. *)
getStats(agentId) ==
  IF agentId \notin DOMAIN agents
  THEN [error |-> AgentNotFound(agentId), totalOrders |-> 0, completedOrders |-> 0,
        failedOrders |-> 0, totalTasks |-> 0]
  ELSE LET h == agents[agentId].orderHistory
       IN  [error |-> NoError,
            totalOrders |-> Len(h),
            completedOrders |-> WithStatus(h, "completed"),
            failedOrders |-> WithStatus(h, "failed"),
            totalTasks |-> SumTasks(h, Len(h))]

(* agent.ts:146-169: a caller calls getStats.  The method reads the map    *)
(* and the agent's history, assigns to nothing and calls no emit.          *)
callGetStats(agentId) ==
  /\ cur = 0
  /\ Len(queries) < MaxQueries
  /\ queries' = Append(queries, [agentId |-> agentId, result |-> getStats(agentId)])
  /\ UNCHANGED <<agents, orders, eventListeners, creations, calls, cur, browserVars>>

(* ------------------------------------------------- PlaywrightController *)

(* playwright-controller.ts:147-149 *)
isReady == controller.isConnected

(* The step types of types.ts (PlayStep), and one that is none of them.    *)
StepTypes == {"navigate", "click", "type", "wait", "screenshot", "custom"}

(* A step is its type and whether it carries what its case of executeStep  *)
(* asks for (value, selector, selector and value, action).                 *)
PlaySteps == [type : StepTypes \cup {"bogus"}, armed : BOOLEAN]

(* A type check that lets every step through. *)
UnknownTypeNever(step) == FALSE

(* playwright-controller.ts:110-111: the default case of the switch. *)
UnknownType(step) == step.type \notin StepTypes

(* playwright-controller.ts:74-108: the page operations executeStep calls  *)
(* for a step of a known type, in sequence.                                *)
Operations(step) ==
  IF step.type = "navigate" THEN (IF step.armed THEN <<"goto">> ELSE <<>>)
  ELSE IF step.type = "click"
       THEN (IF step.armed THEN <<"click", "waitForTimeout">> ELSE <<>>)
  ELSE IF step.type = "type" THEN (IF step.armed THEN <<"fill">> ELSE <<>>)
  ELSE IF step.type = "wait" THEN <<"waitForTimeout">>
  ELSE IF step.type = "screenshot" THEN <<"screenshot">>
  ELSE IF step.type = "custom" THEN (IF step.armed THEN <<"action">> ELSE <<>>)
  ELSE <<>>

(* The plays of up to n steps. *)
RECURSIVE StepSeqs(_)
StepSeqs(n) ==
  IF n = 0 THEN {<<>>}
  ELSE StepSeqs(n - 1) \cup
       {Append(p, st) : p \in {q \in StepSeqs(n - 1) : Len(q) = n - 1}, st \in PlaySteps}

(* playwright-controller.ts:70, 119, 136: !this.page *)
PageMissing == controller.page = 0

(* playwright-controller.ts:53: !this.isConnected || !this.page *)
NotConnected == ~controller.isConnected \/ PageMissing

(* How many initialize calls have succeeded. *)
Succeeded ==
  Cardinality({c \in DOMAIN ctlCalls : /\ ctlCalls[c].op = "initialize"
                                       /\ ctlCalls[c].outcome = "returned"})

(* The record of a call on the controller: the method, where it stands,    *)
(* the browser it launched or closes (b), its play, the step of the loop   *)
(* (idx) and the operation of that step it awaits (sub), the browser and   *)
(* page operations it has called, each with the page it was called on and  *)
(* the step it belongs to (acts), the error the executeStep it awaits was   *)
(* rejected with (rejected), how it ended, and for a close what held       *)
(* when it was called: how many initialize calls had succeeded (epoch) and *)
(* whether no call was under way (quiet).                                  *)
NewCtlCall(op, play) ==
  [op |-> op, pc |-> "done", b |-> 0, play |-> play, idx |-> 0, sub |-> 0,
   acts |-> <<>>, rejected |-> "none", outcome |-> "pending", error |-> "none",
   epoch |-> 0,
   quiet |-> FALSE]

(* No call on the controller is under way. *)
Quiet == \A c \in DOMAIN ctlCalls : ctlCalls[c].pc = "done"

(* How many calls of the methods in ops were made. *)
Made(ops) == Cardinality({c \in DOMAIN ctlCalls : ctlCalls[c].op \in ops})

(* The call ends raising err. *)
Raised(call, err) == [call EXCEPT !.pc = "done", !.outcome = "raised", !.error = err]

(* The executeStep call that executePlay awaits is rejected with err;      *)
(* executePlay itself resumes, and raises, later.                          *)
Rejected(call, err) == [call EXCEPT !.pc = "awaitStep", !.rejected = err]

(* The call ends returning. *)
Returned(call) == [call EXCEPT !.pc = "done", !.outcome = "returned"]

(* How many browsers were launched. *)
Launched ==
  Cardinality({c \in DOMAIN ctlCalls : /\ ctlCalls[c].op = "initialize"
                                       /\ ctlCalls[c].b # 0})

(* playwright-controller.ts:16-24: a caller calls initialize, which awaits *)
(* the import of playwright.                                               *)
initialize ==
  /\ Made({"initialize"}) < MaxInitializes
  /\ ctlCalls' = Append(ctlCalls, [NewCtlCall("initialize", <<>>) EXCEPT !.pc = "import"])
  /\ UNCHANGED <<controller, closed, stale, engineVars>>

(* playwright-controller.ts:24-26 and 41-46: the import settles; on        *)
(* success chromium.launch is called and awaited, on failure the catch     *)
(* block raises.                                                           *)
importDone(c, ok) ==
  /\ ctlCalls[c].pc = "import"
  /\ ctlCalls' = [ctlCalls EXCEPT ![c] =
                    IF ok THEN [@ EXCEPT !.pc = "launch"] ELSE Raised(@, "InitFailed")]
  /\ UNCHANGED <<controller, closed, stale, engineVars>>

(* playwright-controller.ts:26-37: launch settles; on success the browser  *)
(* is stored and its newContext is called and awaited.                     *)
launchDone(c, ok) ==
  /\ ctlCalls[c].pc = "launch"
  /\ IF ok
     THEN /\ controller' = [controller EXCEPT !.browser = Launched + 1]
          /\ ctlCalls' = [ctlCalls EXCEPT ![c] =
                            [@ EXCEPT !.pc = "newContext", !.b = Launched + 1]]
     ELSE /\ ctlCalls' = [ctlCalls EXCEPT ![c] = Raised(@, "InitFailed")]
          /\ UNCHANGED controller
  /\ UNCHANGED <<closed, stale, engineVars>>

(* playwright-controller.ts:34-39: newContext settles; on success          *)
(* context.newPage is called and awaited.                                  *)
newContextDone(c, ok) ==
  /\ ctlCalls[c].pc = "newContext"
  /\ ctlCalls' = [ctlCalls EXCEPT ![c] =
                    IF ok THEN [@ EXCEPT !.pc = "newPage"] ELSE Raised(@, "InitFailed")]
  /\ UNCHANGED <<controller, closed, stale, engineVars>>

(* playwright-controller.ts:39-40: newPage settles; on success the page is *)
(* stored, isConnected is set and initialize returns.                      *)
newPageDone(c, ok) ==
  /\ ctlCalls[c].pc = "newPage"
  /\ IF ok
     THEN /\ controller' = [controller EXCEPT !.page = ctlCalls[c].b,
                                               !.isConnected = TRUE]
          /\ ctlCalls' = [ctlCalls EXCEPT ![c] = Returned(@)]
          /\ stale' = FALSE
     ELSE /\ ctlCalls' = [ctlCalls EXCEPT ![c] = Raised(@, "InitFailed")]
          /\ UNCHANGED <<controller, stale>>
  /\ UNCHANGED <<closed, engineVars>>

(* playwright-controller.ts:154-156: a caller calls close; with no browser *)
(* held it returns at once, otherwise browser.close() is called and        *)
(* awaited.                                                                *)
close ==
  /\ Made({"close"}) < MaxCloses
  /\ IF controller.browser = 0
     THEN /\ ctlCalls' = Append(ctlCalls, Returned([NewCtlCall("close", <<>>) EXCEPT
                                      !.epoch = Succeeded, !.quiet = Quiet]))
          /\ stale' = TRUE
     ELSE /\ ctlCalls' = Append(ctlCalls, [NewCtlCall("close", <<>>) EXCEPT
                             !.pc = "closing", !.b = controller.browser, !.epoch = Succeeded,
                             !.quiet = Quiet,
                             !.acts = <<<<"close", controller.browser, 0>>>>])
          /\ UNCHANGED stale
  /\ UNCHANGED <<controller, closed, engineVars>>

(* playwright-controller.ts:156-159: browser.close() settles; on success   *)
(* the three fields are reset and close returns, on failure close raises   *)
(* with the fields as they are.                                            *)
closeDone(c, ok) ==
  /\ ctlCalls[c].pc = "closing"
  /\ IF ok
     THEN /\ closed' = closed \cup {ctlCalls[c].b}
          /\ controller' = NewController
          /\ ctlCalls' = [ctlCalls EXCEPT ![c] = Returned(@)]
          /\ stale' = IF ctlCalls[c].epoch = Succeeded THEN TRUE ELSE stale
     ELSE /\ ctlCalls' = [ctlCalls EXCEPT ![c] = Raised(@, "OperationFailed")]
          /\ UNCHANGED <<controller, closed, stale>>
  /\ UNCHANGED engineVars

(* playwright-controller.ts:61-62 and 69-112: the for loop of executePlay  *)
(* reaching step i: past the last step executePlay returns; otherwise      *)
(* executeStep runs up to its first await: with no page or an unknown type *)
(* it is rejected, when the step asks for no operation it returns at once  *)
(* (executePlay, which awaits it, resumes later in both cases), or it      *)
(* calls the step's first operation on the page held now.                  *)
EnterStep(call, i) ==
  IF i > Len(call.play) THEN Returned(call)
  ELSE LET at == [call EXCEPT !.idx = i, !.sub = 0]
           ops == Operations(call.play[i])
       IN  IF PageMissing THEN Rejected(at, "PageNotInitialized")
           ELSE IF UnknownType(call.play[i]) THEN Rejected(at, "UnknownStep")
           ELSE IF ops = <<>> THEN [at EXCEPT !.pc = "awaitStep"]
           ELSE [at EXCEPT !.pc = "op", !.sub = 1,
                           !.acts = Append(@, <<ops[1], controller.page, i>>)]

(* playwright-controller.ts:52-58: a caller calls executePlay; it raises   *)
(* when not connected, otherwise page.goto(play.url) is called and         *)
(* awaited.                                                                *)
executePlay(play) ==
  /\ Made({"executePlay", "navigate", "screenshot"}) < MaxPageCalls
  /\ ctlCalls' = Append(ctlCalls,
       IF NotConnected
       THEN Raised(NewCtlCall("executePlay", play), "NotInitialized")
       ELSE [NewCtlCall("executePlay", play) EXCEPT
               !.pc = "goto", !.acts = <<<<"goto", controller.page, 0>>>>])
  /\ UNCHANGED <<controller, closed, stale, engineVars>>

(* playwright-controller.ts:58-62: the goto of the play's url settles; on  *)
(* success the loop starts with the first step.                            *)
gotoDone(c, ok) ==
  /\ ctlCalls[c].pc = "goto"
  /\ ctlCalls' = [ctlCalls EXCEPT ![c] =
                    IF ok THEN EnterStep(@, 1) ELSE Raised(@, "OperationFailed")]
  /\ UNCHANGED <<controller, closed, stale, engineVars>>

(* playwright-controller.ts:74-108: the operation executeStep awaits       *)
(* settles; on failure executeStep is rejected (executePlay, which awaits   *)
(* it, resumes later); on success the step's next operation is called on   *)
(* the page held now (with no page held that is a TypeError), or           *)
(* executeStep returns.                                                    *)
opDone(c, ok) ==
  /\ ctlCalls[c].pc = "op"
  /\ LET call == ctlCalls[c]
         ops  == Operations(call.play[call.idx])
     IN  /\ ctlCalls' = [ctlCalls EXCEPT ![c] =
              IF ~ok THEN Rejected(call, "OperationFailed")
              ELSE IF call.sub < Len(ops)
              THEN (IF PageMissing THEN Rejected(call, "TypeError")
                    ELSE [call EXCEPT !.sub = call.sub + 1,
                            !.acts = Append(@, <<ops[call.sub + 1], controller.page,
                                                 call.idx>>)])
              ELSE [call EXCEPT !.pc = "awaitStep"]]
  /\ UNCHANGED <<controller, closed, stale, engineVars>>

(* playwright-controller.ts:61-62: executePlay resumes after               *)
(* `await this.executeStep(step)`: it raises what executeStep was rejected *)
(* with, or goes on with the next step.                                    *)
resumePlay(c) ==
  /\ ctlCalls[c].pc = "awaitStep"
  /\ ctlCalls' = [ctlCalls EXCEPT ![c] =
                    IF @.rejected # "none" THEN Raised(@, @.rejected)
                    ELSE EnterStep(@, @.idx + 1)]
  /\ UNCHANGED <<controller, closed, stale, engineVars>>

(* navigate and screenshot up to their await: they raise with no page,     *)
(* otherwise the page operation is called and awaited.                     *)
PageCall(method, operation) ==
  /\ Made({"executePlay", "navigate", "screenshot"}) < MaxPageCalls
  /\ ctlCalls' = Append(ctlCalls,
       IF PageMissing
       THEN Raised(NewCtlCall(method, <<>>), "NotInitialized")
       ELSE [NewCtlCall(method, <<>>) EXCEPT
               !.pc = "page", !.acts = <<<<operation, controller.page, 0>>>>])
  /\ UNCHANGED <<controller, closed, stale, engineVars>>

(* playwright-controller.ts:118-123 *)
navigate == PageCall("navigate", "goto")

(* playwright-controller.ts:135-142 *)
screenshot == PageCall("screenshot", "screenshot")

(* playwright-controller.ts:122, 139-141: the operation navigate or        *)
(* screenshot awaits settles, and the call returns or raises.              *)
pageDone(c, ok) ==
  /\ ctlCalls[c].pc = "page"
  /\ ctlCalls' = [ctlCalls EXCEPT ![c] =
                    IF ok THEN Returned(@) ELSE Raised(@, "OperationFailed")]
  /\ UNCHANGED <<controller, closed, stale, engineVars>>

(* ----------------------------------------------------- the specification *)

Next ==
  \/ createAgent
  \/ \E n \in 0..MaxTasks : createOrder(TaskSpecs(n))
  \/ \E ev \in Events, kind \in Observers : on(ev, kind)
  \/ \E agentId \in AgentIds, o \in OrderIds : executeOrder(agentId, o)
  \/ \E c \in DOMAIN calls : emitOrderStarted(c)
  \/ \E c \in DOMAIN calls, m \in Messages \cup {""} : emitTaskStarted(c, m)
  \/ \E c \in DOMAIN calls, m \in Messages \cup {""} : settleAction(c, m)
  \/ \E c \in DOMAIN calls : emitTaskCompleted(c)
  \/ \E c \in DOMAIN calls : resumeOrder(c)
  \/ \E c \in DOMAIN calls : emitOrderCompleted(c)
  \/ \E c \in DOMAIN calls : emitOrderFailed(c)

Spec == Init /\ [][Next]_vars

(* The engine with callers that also query the statistics, and with no     *)
(* handler subscribed.                                                     *)
NextQuery ==
  \/ createAgent
  \/ \E n \in 0..MaxTasks : createOrder(TaskSpecs(n))
  \/ \E agentId \in AgentIds, o \in OrderIds : executeOrder(agentId, o)
  \/ \E c \in DOMAIN calls : emitOrderStarted(c)
  \/ \E c \in DOMAIN calls, m \in Messages \cup {""} : emitTaskStarted(c, m)
  \/ \E c \in DOMAIN calls, m \in Messages \cup {""} : settleAction(c, m)
  \/ \E c \in DOMAIN calls : emitTaskCompleted(c)
  \/ \E c \in DOMAIN calls : resumeOrder(c)
  \/ \E c \in DOMAIN calls : emitOrderCompleted(c)
  \/ \E c \in DOMAIN calls : emitOrderFailed(c)
  \/ \E agentId \in AgentIds : callGetStats(agentId)

SpecQuery == Init /\ [][NextQuery]_vars

(* The engine with callers whose task specs set any of the optional fields *)
(* of Task, with up to MaxFieldOrders orders and no handler subscribed.     *)
NextFields ==
  \/ createAgent
  \/ \E n \in 0..MaxTasks : \E specs \in SpecSeqs(n) :
       Len(orders) < MaxFieldOrders /\ createOrder(specs)
  \/ \E agentId \in AgentIds, o \in OrderIds : executeOrder(agentId, o)
  \/ \E c \in DOMAIN calls : emitOrderStarted(c)
  \/ \E c \in DOMAIN calls, m \in Messages \cup {""} : emitTaskStarted(c, m)
  \/ \E c \in DOMAIN calls, m \in Messages \cup {""} : settleAction(c, m)
  \/ \E c \in DOMAIN calls : emitTaskCompleted(c)
  \/ \E c \in DOMAIN calls : resumeOrder(c)
  \/ \E c \in DOMAIN calls : emitOrderCompleted(c)
  \/ \E c \in DOMAIN calls : emitOrderFailed(c)

SpecFields == Init /\ [][NextFields]_vars

(* A step of executeOrder call c that is not the caller's: the runtime     *)
(* goes on with the call's synchronous stretch or resumes it after an      *)
(* await (agent.ts:80-102, 108-124), or the task action it awaits settles. *)
CallStep(c) ==
  /\ c \in DOMAIN calls
  /\ \/ emitOrderStarted(c)
     \/ \E m \in Messages \cup {""} : emitTaskStarted(c, m)
     \/ \E m \in Messages \cup {""} : settleAction(c, m)
     \/ emitTaskCompleted(c)
     \/ resumeOrder(c)
     \/ emitOrderCompleted(c)
     \/ emitOrderFailed(c)

(* The engine with callers that subscribe handlers to orderStarted only.   *)
NextLive ==
  \/ createAgent
  \/ \E n \in 0..MaxTasks : createOrder(TaskSpecs(n))
  \/ \E kind \in Observers : on("orderStarted", kind)
  \/ \E agentId \in AgentIds, o \in OrderIds : executeOrder(agentId, o)
  \/ \E c \in 1..MaxCalls : CallStep(c)

(* The runtime never leaves a call that can go on waiting forever, and     *)
(* every task action that is awaited settles: weak fairness of every       *)
(* call's steps.  The callers are under no obligation.                     *)
SpecLive ==
  Init /\ [][NextLive]_vars /\ \A c \in 1..MaxCalls : WF_vars(CallStep(c))

(* The engine with callers whose handlers of the events executeOrder       *)
(* publishes may call executeOrder, with any agent id and any order: up to *)
(* MaxHandlerCalls such calls besides the callers' MaxCalls, with up to    *)
(* MaxReentrantListeners handlers subscribed and orders of up to           *)
(* MaxReentrantTasks tasks.  (createAgent does nothing after its publish,  *)
(* agent.ts:22-23: a call a handler of agentCreated makes is the call a    *)
(* caller makes next.)                                                     *)
NextReentrant ==
  \/ createAgent
  \/ \E n \in 0..MaxReentrantTasks : createOrder(TaskSpecs(n))
  \/ \E ev \in Events, kind \in Observers :
       TotalListeners < MaxReentrantListeners /\ on(ev, kind)
  \/ \E ev \in Events \ {"agentCreated"} :
       TotalListeners < MaxReentrantListeners /\ on(ev, "executeOrder")
  \/ \E agentId \in AgentIds, o \in OrderIds : executeOrder(agentId, o)
  \/ \E c \in DOMAIN calls, i \in 1..MaxListeners, agentId \in AgentIds, o \in OrderIds :
       handlerExecuteOrder(c, i, agentId, o)
  \/ \E c \in DOMAIN calls : emitOrderStarted(c)
  \/ \E c \in DOMAIN calls, m \in Messages \cup {""} : emitTaskStarted(c, m)
  \/ \E c \in DOMAIN calls, m \in Messages \cup {""} : settleAction(c, m)
  \/ \E c \in DOMAIN calls : emitTaskCompleted(c)
  \/ \E c \in DOMAIN calls : resumeOrder(c)
  \/ \E c \in DOMAIN calls : emitOrderCompleted(c)
  \/ \E c \in DOMAIN calls : emitOrderFailed(c)

SpecReentrant == Init /\ [][NextReentrant]_vars

(* The PlaywrightController with callers that call its methods at any      *)
(* time, also while earlier calls are awaiting (the controller is shared   *)
(* by the task actions of orders that run on different agents).            *)
NextBrowser ==
  \/ initialize
  \/ \E c \in DOMAIN ctlCalls, ok \in BOOLEAN : importDone(c, ok)
  \/ \E c \in DOMAIN ctlCalls, ok \in BOOLEAN : launchDone(c, ok)
  \/ \E c \in DOMAIN ctlCalls, ok \in BOOLEAN : newContextDone(c, ok)
  \/ \E c \in DOMAIN ctlCalls, ok \in BOOLEAN : newPageDone(c, ok)
  \/ close
  \/ \E c \in DOMAIN ctlCalls, ok \in BOOLEAN : closeDone(c, ok)
  \/ \E play \in StepSeqs(MaxStepsOverlapped) : executePlay(play)
  \/ \E c \in DOMAIN ctlCalls, ok \in BOOLEAN : gotoDone(c, ok)
  \/ \E c \in DOMAIN ctlCalls, ok \in BOOLEAN : opDone(c, ok)
  \/ \E c \in DOMAIN ctlCalls : resumePlay(c)
  \/ navigate
  \/ screenshot
  \/ \E c \in DOMAIN ctlCalls, ok \in BOOLEAN : pageDone(c, ok)

SpecBrowser == Init /\ [][NextBrowser]_vars

(* The PlaywrightController running a play of up to MaxSteps steps, with   *)
(* initialize and close called at any time, also while the play runs.      *)
NextPlay ==
  \/ Made({"initialize"}) < MaxPlayInitializes /\ initialize
  \/ \E c \in DOMAIN ctlCalls, ok \in BOOLEAN : importDone(c, ok)
  \/ \E c \in DOMAIN ctlCalls, ok \in BOOLEAN : launchDone(c, ok)
  \/ \E c \in DOMAIN ctlCalls, ok \in BOOLEAN : newContextDone(c, ok)
  \/ \E c \in DOMAIN ctlCalls, ok \in BOOLEAN : newPageDone(c, ok)
  \/ Made({"close"}) < MaxPlayCloses /\ close
  \/ \E c \in DOMAIN ctlCalls, ok \in BOOLEAN : closeDone(c, ok)
  \/ \E play \in StepSeqs(MaxSteps) : executePlay(play)
  \/ \E c \in DOMAIN ctlCalls, ok \in BOOLEAN : gotoDone(c, ok)
  \/ \E c \in DOMAIN ctlCalls, ok \in BOOLEAN : opDone(c, ok)
  \/ \E c \in DOMAIN ctlCalls : resumePlay(c)

SpecPlay == Init /\ [][NextPlay]_vars

(* ------------------------------------------------------------ the claims *)

(* Calls that are between their first step and their end. *)
Active(c) == calls[c].pc # "done"

(* The call passed the agent-not-found and agent-busy checks. *)
Admitted(c) == calls[c].error.kind \notin {"AgentNotFound", "AgentBusy"}

BusyIffCurrent(a) == (agents[a].status = "busy") <=> (agents[a].currentOrder # 0)

(* The step is an executeOrder call being made, by a caller or by a        *)
(* handler.                                                                *)
CallMade == Len(calls') = Len(calls) + 1

(* In this step an executeOrder call returns or raises. *)
CallEnds ==
  \E c \in DOMAIN calls' :
    /\ calls'[c].pc = "done"
    /\ c \in DOMAIN calls => calls[c].pc # "done"

(* C1: in the state in which an executeOrder call is made, by a caller or  *)
(* by a handler, and in the state in which an executeOrder call returns or *)
(* raises, every agent's status is busy iff its currentOrder is set.       *)
C1_BusyIffCurrentAtCallBoundaries ==
  [][/\ CallMade => \A a \in DOMAIN agents : BusyIffCurrent(a)
     /\ CallEnds => \A a \in DOMAIN agents' :
                      (agents'[a].status = "busy") <=> (agents'[a].currentOrder # 0)]_vars

(* C2: in every reachable state, the states handlers observe during a      *)
(* publish included, every agent's status is busy iff its currentOrder is  *)
(* set.                                                                    *)
C2_BusyIffCurrentEverywhere ==
  \A a \in DOMAIN agents : BusyIffCurrent(a)

(* The step is an executeOrder call made on a registered agent that is     *)
(* busy.                                                                   *)
CallOnBusyAgent ==
  /\ Len(calls') = Len(calls) + 1
  /\ calls'[Len(calls')].agentId \in DOMAIN agents
  /\ agents[calls'[Len(calls')].agentId].status = "busy"

(* C3: an executeOrder call on a busy agent ends in the same step (it      *)
(* awaits nothing) raising the agent-busy error, and changes no agent, no  *)
(* order or task, and publishes no event.                                  *)
C3_BusyCallRejectedUnchanged ==
  [][CallOnBusyAgent =>
       /\ calls'[Len(calls')].pc = "done"
       /\ calls'[Len(calls')].outcome = "raised"
       /\ calls'[Len(calls')].error.kind = "AgentBusy"
       /\ calls'[Len(calls')].published = <<>>
       /\ cur' = 0
       /\ agents' = agents
       /\ orders' = orders
       /\ creations' = creations
       /\ \A c \in DOMAIN calls : calls'[c] = calls[c]]_vars

(* A call was rejected as busy while the call that made the agent busy is  *)
(* still running.                                                          *)
C3_Witness ==
  \E c, d \in DOMAIN calls :
    /\ c # d
    /\ calls[d].error.kind = "AgentBusy"
    /\ calls[d].agentId = calls[c].agentId
    /\ Active(c)
    /\ agents[calls[c].agentId].status = "busy"
    /\ agents[calls[c].agentId].currentOrder = calls[c].order

(* C4: the busy check and the marking are one step, so two calls are never *)
(* running for the same agent: while a call is running its agent is busy   *)
(* with that call's order, and every other call on that agent is over.     *)
C4_OneRunningCallPerAgent ==
  \A c \in DOMAIN calls :
    Active(c) =>
      /\ agents[calls[c].agentId].status \in {"busy", "error"}
      /\ agents[calls[c].agentId].currentOrder = calls[c].order
      /\ \A d \in DOMAIN calls :
           (d # c /\ calls[d].agentId = calls[c].agentId) =>
             /\ ~Active(d)
             /\ (d > c => calls[d].error.kind = "AgentBusy")

(* How many times x occurs in the sequence s. *)
Count(s, x) == Cardinality({i \in DOMAIN s : s[i] = x})

(* In this step call c ends: it returns or raises. *)
Ends(c) == calls[c].pc # "done" /\ calls'[c].pc = "done"

(* Every action call c invoked has settled with success. *)
AllSucceeded(call) ==
  /\ Len(call.settled) = Len(call.invoked)
  /\ \A i \in DOMAIN call.settled : call.settled[i] = "ok"

(* Every task of the order has the status st. *)
AllTasks(ord, st) == \A i \in DOMAIN ord.tasks : ord.tasks[i].status = st

(* C5: when a call made with a pending order returns, every action having  *)
(* succeeded, the order and all its tasks are completed, the agent is idle *)
(* with no current order and the order is in its history exactly once.     *)
C5_SuccessPostcondition ==
  [][\A c \in DOMAIN calls :
       (/\ Ends(c)
        /\ calls'[c].outcome = "returned"
        /\ calls[c].preOrder = "pending"
        /\ AllSucceeded(calls'[c])) =>
         /\ orders'[calls[c].order].status = "completed"
         /\ AllTasks(orders'[calls[c].order], "completed")
         /\ agents'[calls[c].agentId].status = "idle"
         /\ agents'[calls[c].agentId].currentOrder = 0
         /\ Count(agents'[calls[c].agentId].orderHistory, calls[c].order) = 1]_vars

(* Task k is the first task of the call whose action failed. *)
FirstFailure(call, k) ==
  /\ k \in DOMAIN call.settled
  /\ call.settled[k] = "fail"
  /\ \A j \in 1..(k - 1) : call.settled[j] = "ok"

(* C6: when a call made with a pending order ends and task k was the first *)
(* whose action failed, tasks 1..k-1 are completed, task k is failed,      *)
(* tasks k+1..N are pending, the order is failed, the agent is in error,   *)
(* the order is in the agent's history exactly once and the call raised.   *)
C6_FailurePostcondition ==
  [][\A c \in DOMAIN calls : \A k \in 1..MaxTasks :
       (/\ Ends(c)
        /\ calls[c].preOrder = "pending"
        /\ FirstFailure(calls'[c], k)) =>
         LET ord == orders'[calls[c].order]
             ag  == agents'[calls[c].agentId]
         IN  /\ \A j \in DOMAIN ord.tasks :
                  ord.tasks[j].status = IF j < k THEN "completed"
                                        ELSE IF j = k THEN "failed" ELSE "pending"
             /\ ord.status = "failed"
             /\ ag.status = "error"
             /\ Count(ag.orderHistory, calls[c].order) = 1
             /\ calls'[c].outcome = "raised"]_vars

(* C7: in one call, once the action of a task has failed, no later task is *)
(* started: none is set running, no action is invoked and no event is      *)
(* published for a later task.                                             *)
C7_FailFast ==
  \A c \in DOMAIN calls : \A k \in DOMAIN calls[c].settled :
    calls[c].settled[k] = "fail" =>
      /\ calls[c].idx = k
      /\ Len(calls[c].invoked) = k
      /\ \A e \in DOMAIN calls[c].published : calls[c].published[e][2] <= k

(* The tasks of the order that are running. *)
Running(ord) == {i \in DOMAIN ord.tasks : ord.tasks[i].status = "running"}

(* C8: in one call the action of task i+1 is invoked only when the action  *)
(* of task i has settled and task i is completed, and an order never has   *)
(* two tasks running.                                                      *)
C8_Sequential ==
  /\ \A o \in DOMAIN orders : Cardinality(Running(orders[o])) <= 1
  /\ \A c \in DOMAIN calls : \A i \in DOMAIN calls[c].invoked :
       i > 1 =>
         /\ Len(calls[c].settled) >= i - 1
         /\ calls[c].settled[i - 1] = "ok"
         /\ (calls[c].pc = "action" /\ i = Len(calls[c].invoked)) =>
               orders[calls[c].order].tasks[i - 1].status = "completed"

(* taskStarted 1, taskCompleted 1, ..., taskStarted n, taskCompleted n. *)
RECURSIVE TaskEvents(_)
TaskEvents(n) ==
  IF n = 0 THEN <<>>
  ELSE TaskEvents(n - 1) \o <<<<"taskStarted", n>>, <<"taskCompleted", n>>>>

(* What a call publishes for an order of n tasks that all succeed. *)
SuccessEvents(n) ==
  <<<<"orderStarted", 0>>>> \o TaskEvents(n) \o <<<<"orderCompleted", n>>>>

(* C9: a call that passed the checks and whose order's tasks all succeed   *)
(* has published, when it ends, orderStarted, then taskStarted and         *)
(* taskCompleted for each task in order, then orderCompleted, and nothing  *)
(* else.                                                                   *)
C9_SuccessEventSequence ==
  \A c \in DOMAIN calls :
    (calls[c].pc = "done" /\ Admitted(c) /\ AllSucceeded(calls[c])) =>
      calls[c].published = SuccessEvents(Len(orders[calls[c].order].tasks))

(* C10: when a call that passed the checks ends, in that step's result the *)
(* order has been appended once to the agent's history and the agent's     *)
(* current order is cleared.                                               *)
C10_CleanupOnEveryExit ==
  [][\A c \in DOMAIN calls :
       (Ends(c) /\ calls'[c].error.kind \notin {"AgentNotFound", "AgentBusy"}) =>
         /\ agents'[calls[c].agentId].orderHistory =
              Append(agents[calls[c].agentId].orderHistory, calls[c].order)
         /\ agents'[calls[c].agentId].currentOrder = 0]_vars

(* Some action the call invoked has failed. *)
SomeTaskFailed(call) == \E k \in DOMAIN call.settled : call.settled[k] = "fail"

(* x occurs in the sequence s. *)
InSeq(s, x) == \E i \in DOMAIN s : s[i] = x

(* C11: a call that passed the checks raises iff a task of its order       *)
(* failed; when it raises the order is already in the agent's history with *)
(* status failed and the agent's current order is cleared; when it returns *)
(* the order's status is not failed.                                       *)
C11_RaisesIffTaskFailedAfterCleanup ==
  [][\A c \in DOMAIN calls :
       (Ends(c) /\ calls'[c].error.kind \notin {"AgentNotFound", "AgentBusy"}) =>
         LET ord == orders'[calls[c].order]
             ag  == agents'[calls[c].agentId]
         IN  /\ (calls'[c].outcome = "raised") <=> SomeTaskFailed(calls'[c])
             /\ calls'[c].outcome = "raised" =>
                  /\ InSeq(ag.orderHistory, calls[c].order)
                  /\ ord.status = "failed"
                  /\ ag.currentOrder = 0
             /\ calls'[c].outcome = "returned" => ord.status # "failed"]_vars

(* C12: in every publish, when a handler throws, every handler registered  *)
(* after it for the same event is still called: no publish leaves a        *)
(* registered handler uncalled.                                            *)
C12_LaterHandlersStillCalled ==
  /\ \A a \in DOMAIN creations : creations[a].skipped = 0
  /\ \A c \in DOMAIN calls : \A e \in DOMAIN calls[c].skipped :
       calls[c].skipped[e] = 0

(* C13: whatever the subscribed handlers do, createAgent returns without   *)
(* raising, a call that passed the checks raises only when a task failed,  *)
(* and when it has ended its order is in the agent's history, as it would  *)
(* be with no handler subscribed.                                          *)
C13_HandlerFaultsChangeNothing ==
  /\ \A a \in DOMAIN creations : creations[a].outcome = "returned"
  /\ \A c \in DOMAIN calls :
       (calls[c].pc = "done" /\ Admitted(c)) =>
         /\ calls[c].error.kind # "HandlerFault"
         /\ calls[c].outcome = "raised" => SomeTaskFailed(calls[c])
         /\ InSeq(agents[calls[c].agentId].orderHistory, calls[c].order)

(* The place of an order status in pending -> in_progress -> completed or  *)
(* failed.                                                                 *)
Rank(st) == IF st = "pending" THEN 0 ELSE IF st = "in_progress" THEN 1 ELSE 2

(* C14: no step moves an order's status back to an earlier status, and a   *)
(* status of completed or failed never changes again.                      *)
C14_OrderStatusForwardOnly ==
  [][\A o \in DOMAIN orders :
       /\ Rank(orders'[o].status) >= Rank(orders[o].status)
       /\ orders[o].status \in {"completed", "failed"} =>
            orders'[o].status = orders[o].status]_vars

(* How many entries of the first n agents' histories are the order o. *)
RECURSIVE Executions(_, _)
Executions(o, n) ==
  IF n = 0 THEN 0 ELSE Executions(o, n - 1) + Count(agents[n].orderHistory, o)

(* C15: every order occurs at most once in all the agents' histories       *)
(* together: never twice in one history, never in two histories.           *)
C15_NoOrderExecutedTwice ==
  \A o \in DOMAIN orders : Executions(o, Len(agents)) <= 1

(* C16 as stated: no step takes an agent's status from error to idle or    *)
(* busy.                                                                   *)
C16_ErrorIsForever ==
  [][\A a \in DOMAIN agents :
       agents[a].status = "error" => agents'[a].status = "error"]_vars

(* The step is an executeOrder call made on agent a. *)
CallOn(a) ==
  /\ Len(calls') = Len(calls) + 1
  /\ calls'[Len(calls')].agentId = a

(* C16, amended: an agent in error stays in error until executeOrder is    *)
(* called on that agent: the only step that changes the status of an agent *)
(* in error is an executeOrder call on it, which marks it busy.            *)
C16_ErrorUntilNextOrder ==
  [][\A a \in DOMAIN agents :
       (agents[a].status = "error" /\ agents'[a].status # "error") =>
         /\ CallOn(a)
         /\ agents'[a].status = "busy"
         /\ agents'[a].currentOrder = calls'[Len(calls')].order]_vars

(* An agent is in error after its call has ended, and a call made later on *)
(* another agent has run to its end.                                       *)
C16_Witness ==
  \E c, d \in DOMAIN calls :
    /\ c < d
    /\ calls[c].pc = "done" /\ Admitted(c)
    /\ agents[calls[c].agentId].status = "error"
    /\ calls[d].agentId # calls[c].agentId
    /\ calls[d].pc = "done" /\ Admitted(d)
    /\ calls[d].outcome = "returned"

(* The calls on agent a that passed the checks and have ended with the     *)
(* given outcome.                                                          *)
Executed(a, outcome) ==
  {c \in DOMAIN calls : /\ calls[c].agentId = a
                        /\ calls[c].pc = "done"
                        /\ Admitted(c)
                        /\ calls[c].outcome = outcome}

(* The number of tasks of the orders of the calls in S that are among the  *)
(* first n calls.                                                          *)
RECURSIVE TasksOf(_, _)
TasksOf(S, n) ==
  IF n = 0 THEN 0
  ELSE TasksOf(S, n - 1) + (IF n \in S THEN Len(orders[calls[n].order].tasks) ELSE 0)

(* C17: for every agent, with M its calls that returned and F its calls    *)
(* that raised after passing the checks, getStats reports M + F orders, M  *)
(* completed, F failed, and the sum of the task counts of their orders.    *)
C17_StatsCountExecutions ==
  \A a \in DOMAIN agents :
    LET M == Executed(a, "returned")
        F == Executed(a, "raised")
    IN  /\ getStats(a).error = NoError
        /\ getStats(a).totalOrders = Cardinality(M) + Cardinality(F)
        /\ getStats(a).completedOrders = Cardinality(M)
        /\ getStats(a).failedOrders = Cardinality(F)
        /\ getStats(a).totalTasks = TasksOf(M \cup F, Len(calls))

(* The step is a step of executeOrder call c: the call is made, or moves.  *)
StepOf(c) == c \notin DOMAIN calls \/ calls'[c] # calls[c]

(* The status an agent is left with by a call that ran alone and met what  *)
(* this call met: busy when an orderStarted handler threw (nothing after   *)
(* agent.ts:80 runs), error when a task action failed or a handler threw   *)
(* inside the try block, idle otherwise.                                   *)
AloneStatus(call) ==
  IF call.error.kind = "HandlerFault" /\ Len(call.published) = 1 THEN "busy"
  ELSE IF SomeTaskFailed(call) \/ call.error.kind = "HandlerFault" THEN "error"
  ELSE "idle"

(* C18: a step of an executeOrder call changes no agent but its own, and   *)
(* when a call that passed the checks ends, its agent's status is the one  *)
(* the call would have left had it run alone: decided by how the call's    *)
(* own task actions settled and by the handlers it called.                 *)
C18_AgentsDoNotInterfere ==
  [][\A c \in DOMAIN calls' :
       /\ StepOf(c) =>
            \A b \in DOMAIN agents : b # calls'[c].agentId => agents'[b] = agents[b]
       /\ (c \in DOMAIN calls /\ Ends(c)
             /\ calls'[c].error.kind \notin {"AgentNotFound", "AgentBusy"}) =>
            agents'[calls[c].agentId].status = AloneStatus(calls'[c])]_vars

(* The step is an executeOrder call with an agent id that is not in the    *)
(* registry.                                                               *)
CallOnUnknownAgent ==
  /\ Len(calls') = Len(calls) + 1
  /\ getAgent(calls'[Len(calls')].agentId) = <<>>

(* C19: an executeOrder call with an agent id that is not in the registry  *)
(* ends in the same step raising the agent-not-found error for that id,    *)
(* changes no agent, no order and no task, and publishes no event.         *)
C19_UnknownAgentRejectedUnchanged ==
  [][CallOnUnknownAgent =>
       LET call == calls'[Len(calls')]
       IN  /\ call.pc = "done"
           /\ call.outcome = "raised"
           /\ call.error.kind = "AgentNotFound"
           /\ call.error.subject = call.agentId
           /\ call.published = <<>>
           /\ call.invoked = <<>>
           /\ cur' = 0
           /\ agents' = agents
           /\ orders' = orders
           /\ creations' = creations
           /\ \A c \in DOMAIN calls : calls'[c] = calls[c]]_vars

(* A call with an unknown agent id was rejected while another agent is     *)
(* registered, and the order it was given, which has tasks, is still       *)
(* pending with its tasks pending.                                         *)
C19_Witness ==
  \E c \in DOMAIN calls :
    /\ calls[c].pc = "done"
    /\ calls[c].outcome = "raised"
    /\ calls[c].error = AgentNotFound(calls[c].agentId)
    /\ getAgent(calls[c].agentId) = <<>>
    /\ Len(agents) >= 1
    /\ orders[calls[c].order].status = "pending"
    /\ Len(orders[calls[c].order].tasks) >= 1
    /\ AllTasks(orders[calls[c].order], "pending")

(* The step is a createAgent call. *)
Creates == Len(creations') = Len(creations) + 1

(* C20: a createAgent call adds exactly one agent, under an id no agent    *)
(* had, idle, with an empty history and no current order; agentCreated is  *)
(* published once, with that agent; getAgent on the new id returns the new *)
(* agent; and every agent that existed is unchanged.                       *)
C20_CreateAgentAddsOneIdleAgent ==
  [][Creates =>
       \E id \in AgentIds :
           /\ id = Len(agents')
           /\ Len(agents') = Len(agents) + 1
           /\ id \notin DOMAIN agents
           /\ agents'[id].status = "idle"
           /\ agents'[id].orderHistory = <<>>
           /\ agents'[id].currentOrder = 0
           /\ creations'[Len(creations')].published = 1
           /\ creations'[Len(creations')].agent = id
           /\ getAgent(id) = <<>>
           /\ getAgent(id)' = <<agents'[id]>>
           /\ \A a \in DOMAIN agents : agents'[a] = agents[a]
           /\ \A a \in DOMAIN agents : getAgent(a)' = getAgent(a)]_vars

(* A second agent was created, with a throwing agentCreated handler        *)
(* subscribed, after the first agent had executed an order that failed:    *)
(* the new agent is idle and the first agent is still in error with its    *)
(* history.                                                                *)
C20_Witness ==
  /\ Len(agents) = 2
  /\ Len(creations) = 2
  /\ creations[2].outcome = "raised"
  /\ creations[2].agent = 2
  /\ getAgent(2) = <<NewAgent>>
  /\ agents[1].status = "error"
  /\ agents[1].orderHistory # <<>>

(* The step is a createOrder call. *)
CreatesOrder == Len(orders') = Len(orders) + 1

(* C21: a createOrder call makes one order, pending, whose tasks are the   *)
(* given specs in the sequence they were given, each pending; it changes   *)
(* no agent, no other order, adds no agent to the registry and publishes   *)
(* no event.  (The ids are fresh by the model's reading of randomUUID: an  *)
(* order or task is identified by its place.)                              *)
C21_CreateOrderPendingAndFrameOnly ==
  [][CreatesOrder =>
       LET ord == orders'[Len(orders')]
       IN  /\ ord.status = "pending"
           /\ Len(ord.tasks) \in 0..MaxTasks
           /\ \A i \in DOMAIN ord.tasks :
                /\ ord.tasks[i].spec = TaskSpecs(Len(ord.tasks))[i].place
                /\ ord.tasks[i].status = "pending"
           /\ \A o \in DOMAIN orders : orders'[o] = orders[o]
           /\ agents' = agents
           /\ creations' = creations
           /\ calls' = calls
           /\ eventListeners' = eventListeners
           /\ queries' = queries
           /\ cur' = cur]_vars

(* A second order, of two tasks, exists and is pending with its tasks      *)
(* pending in the given sequence while a call is awaiting a task of the    *)
(* first order, whose agent is busy.                                       *)
C21_Witness ==
  /\ Len(orders) = 2
  /\ orders[2] = NewOrder(TaskSpecs(2))
  /\ Len(orders[2].tasks) = 2
  /\ orders[2].tasks[1].spec = 1 /\ orders[2].tasks[2].spec = 2
  /\ \E c \in DOMAIN calls :
       /\ calls[c].order = 1
       /\ calls[c].pc = "action"
       /\ agents[calls[c].agentId].status = "busy"
  /\ \A c \in DOMAIN calls : calls[c].order = 1

(* The step is a getStats call. *)
Queries == Len(queries') = Len(queries) + 1

(* C22: a getStats call changes no agent, order, task, listener or call    *)
(* and publishes nothing; for a registered agent it returns the counts of  *)
(* that agent's history, for an id that is not registered it raises the    *)
(* agent-not-found error for that id.                                      *)
C22_GetStatsIsPure ==
  [][Queries =>
       LET q == queries'[Len(queries')]
       IN  /\ agents' = agents
           /\ orders' = orders
           /\ eventListeners' = eventListeners
           /\ creations' = creations
           /\ calls' = calls
           /\ cur' = cur
           /\ \A k \in DOMAIN queries : queries'[k] = queries[k]
           /\ q.agentId \in DOMAIN agents =>
                /\ q.result.error = NoError
                /\ q.result.totalOrders = Len(agents[q.agentId].orderHistory)
                /\ q.result.totalTasks =
                     SumTasks(agents[q.agentId].orderHistory,
                              Len(agents[q.agentId].orderHistory))
                /\ q.result.completedOrders + q.result.failedOrders
                     <= q.result.totalOrders
           /\ q.agentId \notin DOMAIN agents =>
                q.result.error = AgentNotFound(q.agentId)]_vars

(* getStats was called for an id that is not registered and raised, and    *)
(* then for an agent that has run a failed order of two tasks while a call *)
(* on another order is still awaiting its task, and returned its counts.   *)
C22_Witness ==
  /\ Len(queries) = 2
  /\ queries[1].agentId \notin DOMAIN agents
  /\ queries[1].result.error = AgentNotFound(queries[1].agentId)
  /\ queries[2].agentId \in DOMAIN agents
  /\ queries[2].result.error = NoError
  /\ queries[2].result.totalOrders = 1
  /\ queries[2].result.failedOrders = 1
  /\ queries[2].result.totalTasks = 2
  /\ \E c \in DOMAIN calls : calls[c].pc = "action"

(* The callbacks registered under ev, by their place, in registration      *)
(* order.                                                                  *)
Registered(ev) == [i \in DOMAIN eventListeners[ev] |-> i]

(* The event call c publishes in this step. *)
PublishedNow(c) == calls'[c].published[Len(calls'[c].published)][1]

(* C23: every publish, by createAgent or by an executeOrder call, calls    *)
(* each callback registered under the published event once, in             *)
(* registration order, and no other callback.                              *)
C23_EachHandlerOncePerPublishInOrder ==
  [][/\ Creates => Called("agentCreated") = Registered("agentCreated")
     /\ \A c \in DOMAIN calls :
          Len(calls'[c].published) > Len(calls[c].published) =>
            Called(PublishedNow(c)) = Registered(PublishedNow(c))]_vars

(* C24: when a call that passed the checks ends after the action of its    *)
(* k-th invoked task failed with a message m, that task is failed with     *)
(* error m, the tasks before it are completed and those after it pending,  *)
(* the order is failed, the agent in error, and the call raises the task   *)
(* failure carrying m (the error orderFailed was published with).          *)
C24_FailureMessageCarried ==
  [][\A c \in DOMAIN calls :
       (Ends(c) /\ calls'[c].error.kind \notin {"AgentNotFound", "AgentBusy"}) =>
         \A k \in DOMAIN calls'[c].settled :
           calls'[c].settled[k] = "fail" =>
             LET i   == calls'[c].invoked[k]
                 ord == orders'[calls[c].order]
             IN  /\ ord.tasks[i].status = "failed"
                 /\ ord.tasks[i].error \in Messages
                 /\ \A j \in DOMAIN ord.tasks :
                      /\ j < i => ord.tasks[j].status = "completed"
                      /\ j > i => ord.tasks[j].status = "pending"
                 /\ ord.status = "failed"
                 /\ agents'[calls[c].agentId].status = "error"
                 /\ calls'[c].outcome = "raised"
                 /\ calls'[c].error = TaskFailedError(i, ord.tasks[i])
                 /\ calls'[c].error.detail = ord.tasks[i].error
                 /\ InSeq(calls'[c].published, <<"orderFailed", i>>)]_vars

(* The places in the call's published events of the events named ev. *)
Places(call, ev) == {e \in DOMAIN call.published : call.published[e][1] = ev}

(* Every task of the call's order was run by the call and its action       *)
(* succeeded.                                                              *)
EveryTaskCompleted(call) ==
  /\ AllSucceeded(call)
  /\ Len(call.invoked) = Len(orders[call.order].tasks)

(* C25: when a call that passed the checks ends, it has published exactly  *)
(* one of orderCompleted and orderFailed, once, as its last event (after   *)
(* every taskCompleted): orderCompleted if every task completed,           *)
(* orderFailed otherwise.                                                  *)
C25_OneTerminalEvent ==
  [][\A c \in DOMAIN calls :
       (Ends(c) /\ calls'[c].error.kind \notin {"AgentNotFound", "AgentBusy"}) =>
         LET call == calls'[c]
             done == Places(call, "orderCompleted")
             fail == Places(call, "orderFailed")
         IN  /\ Cardinality(done \cup fail) = 1
             /\ done \cup fail = {Len(call.published)}
             /\ EveryTaskCompleted(call) => fail = {}
             /\ ~EveryTaskCompleted(call) => done = {}]_vars

(* C26: in the events of every call, a taskStarted for a task is followed  *)
(* next by the taskCompleted for that task, before any other event of the  *)
(* call, and a call that has ended has no taskStarted left unanswered;     *)
(* and whenever a call is about to publish taskCompleted the task is       *)
(* already completed or failed.                                            *)
C26_TaskStartedThenTaskCompleted ==
  \A c \in DOMAIN calls :
    LET p == calls[c].published
    IN  /\ \A e \in DOMAIN p :
             p[e][1] = "taskStarted" =>
               /\ e < Len(p) => p[e + 1] = <<"taskCompleted", p[e][2]>>
               /\ calls[c].pc = "done" => e < Len(p)
               /\ \A f \in DOMAIN p : (f # e /\ p[f][2] = p[e][2]) =>
                                         p[f][1] # "taskStarted"
        /\ calls[c].pc = "taskCompleted" =>
             orders[calls[c].order].tasks[calls[c].idx].status
               \in {"completed", "failed"}

(* C27: in every reachable state every task has a result only if it is     *)
(* completed, an error only if it is failed, and never both.               *)
C27_ResultAndErrorMatchStatus ==
  \A o \in DOMAIN orders : \A i \in DOMAIN orders[o].tasks :
    LET t == orders[o].tasks[i]
    IN  /\ t.result # Undefined => t.status = "completed"
        /\ t.error # Undefined => t.status = "failed"
        /\ ~(t.result # Undefined /\ t.error # Undefined)

(* The timestamps of the task agree with its status. *)
TimestampsMatch(t) ==
  /\ t.startTime <=> t.status # "pending"
  /\ t.endTime <=> t.status \in {"completed", "failed"}

(* C28: every step ends in a state (each is one callers or handlers can    *)
(* observe) in which every task has a start timestamp iff it is not        *)
(* pending and an end timestamp iff it is completed or failed; and when a  *)
(* call returns normally every task of its order has both timestamps.      *)
C28_TimestampsMatchStatus ==
  [][/\ \A o \in DOMAIN orders' : \A i \in DOMAIN orders'[o].tasks :
          TimestampsMatch(orders'[o].tasks[i])
     /\ \A c \in DOMAIN calls :
          (Ends(c) /\ calls'[c].outcome = "returned") =>
            \A i \in DOMAIN orders'[calls[c].order].tasks :
              /\ orders'[calls[c].order].tasks[i].startTime
              /\ orders'[calls[c].order].tasks[i].endTime]_vars

(* The sequence s is a prefix of the sequence t. *)
IsPrefix(s, t) == Len(s) <= Len(t) /\ \A i \in DOMAIN s : s[i] = t[i]

(* The calls on agent a that passed the checks and end in this step. *)
EndingOn(a) ==
  {c \in DOMAIN calls : /\ calls[c].agentId = a
                        /\ Ends(c)
                        /\ calls'[c].error.kind \notin {"AgentNotFound", "AgentBusy"}}

(* C29: no step removes an agent; every step leaves each agent's history a *)
(* prefix of its new history; and the history grows in a step by one entry *)
(* for each call on the agent that ends in it after passing the checks,    *)
(* and by nothing else.                                                    *)
C29_HistoryAppendOnly ==
  [][\A a \in DOMAIN agents :
       /\ a \in DOMAIN agents'
       /\ IsPrefix(agents[a].orderHistory, agents'[a].orderHistory)
       /\ Len(agents'[a].orderHistory) =
            Len(agents[a].orderHistory) + Cardinality(EndingOn(a))]_vars

(* C30: when every awaited task action settles, every executeOrder call    *)
(* that has not ended eventually ends (returns or raises), and every agent *)
(* that is busy eventually is not busy.                                    *)
C30_CallsEndAndAgentsStopBeingBusy ==
  /\ \A c \in 1..MaxCalls :
       (c \in DOMAIN calls /\ Active(c)) ~> (c \in DOMAIN calls /\ ~Active(c))
  /\ \A a \in AgentIds :
       (a \in DOMAIN agents /\ agents[a].status = "busy")
         ~> (a \in DOMAIN agents /\ agents[a].status # "busy")

(* A browser and a page are held. *)
Held == controller.browser # 0 /\ controller.page # 0

(* In this step a call of the method is made. *)
CallsNow(method) ==
  /\ Len(ctlCalls') = Len(ctlCalls) + 1
  /\ ctlCalls'[Len(ctlCalls')].op = method

(* In this step call c of the method ends with the outcome. *)
EndsNow(c, method, outcome) ==
  /\ ctlCalls'[c].op = method
  /\ ctlCalls'[c].outcome = outcome
  /\ c \in DOMAIN ctlCalls => ctlCalls[c].outcome = "pending"

(* The call made last was a close made while no call was under way, it     *)
(* has returned, and no call is under way.                                 *)
JustClosed ==
  /\ Quiet
  /\ ctlCalls # <<>>
  /\ LET last == ctlCalls[Len(ctlCalls)]
     IN  last.op = "close" /\ last.outcome = "returned" /\ last.quiet

(* C32: whenever no initialize or close call is under way, isReady() is    *)
(* true exactly if a browser and a page are held; an initialize that fails *)
(* does not turn isReady() true; a close that returns leaves isReady()     *)
(* false and browser and page null; and a close called right after a close *)
(* returns at once, calling nothing and changing nothing.                  *)
C32_ReadyIffBrowserAndPageHeld ==
  [][/\ Quiet' => (isReady' <=> Held')
     /\ \A c \in DOMAIN ctlCalls' :
          /\ EndsNow(c, "initialize", "raised") => (isReady' => isReady)
          /\ EndsNow(c, "close", "returned") => controller' = NewController
     /\ (JustClosed /\ CallsNow("close")) =>
          /\ ctlCalls'[Len(ctlCalls')].outcome = "returned"
          /\ ctlCalls'[Len(ctlCalls')].acts = <<>>
          /\ controller' = controller]_vars

(* The methods that work on the page. *)
PageMethods == {"executePlay", "navigate", "screenshot"}

(* C31: a call of executePlay, navigate or screenshot made while no        *)
(* initialize has succeeded yet, or after a close that was called since    *)
(* the last successful initialize has returned, raises the not-initialized *)
(* error, calls no browser or page operation and leaves the controller's   *)
(* fields as they are.                                                     *)
C31_NotInitializedCallsFail ==
  [][\A method \in PageMethods :
       (stale /\ CallsNow(method)) =>
         /\ ctlCalls'[Len(ctlCalls')].outcome = "raised"
         /\ ctlCalls'[Len(ctlCalls')].error = "NotInitialized"
         /\ ctlCalls'[Len(ctlCalls')].acts = <<>>
         /\ controller' = controller]_vars

(* The operations steps 1..i of the play ask for, in order, each with its  *)
(* step.                                                                   *)
RECURSIVE StepActs(_, _)
StepActs(play, i) ==
  IF i = 0 THEN <<>>
  ELSE StepActs(play, i - 1) \o
       [k \in DOMAIN Operations(play[i]) |-> <<Operations(play[i])[k], i>>]

(* The operations the call has called, each with its step (0: the goto of  *)
(* the play's url).                                                        *)
Trace(call) == [k \in DOMAIN call.acts |-> <<call.acts[k][1], call.acts[k][3]>>]

(* The executePlay calls that passed the guard. *)
Plays ==
  {c \in DOMAIN ctlCalls : /\ ctlCalls[c].op = "executePlay"
                           /\ ctlCalls[c].error # "NotInitialized"}

(* C33: what an executePlay call has called is at every moment the goto of *)
(* the play's url followed by the operations of the steps in list order,   *)
(* up to the operation of the step it is at (a step and an operation start *)
(* only when the one before has settled with success); the call returns    *)
(* only when it has called every operation of every step; a step of        *)
(* unknown type it reaches fails (with the unknown-type error, or the      *)
(* no-page error when the page is gone by then); once a step has failed    *)
(* the call starts nothing more and can only raise, with that step's       *)
(* error; and a call that has raised has called no operation of a later    *)
(* step.                                                                   *)
C33_StepsInOrderUntilFailure ==
  \A c \in Plays :
    LET call == ctlCalls[c]
        play == call.play
    IN  /\ IsPrefix(Trace(call), <<<<"goto", 0>>>> \o StepActs(play, Len(play)))
        /\ call.idx >= 1 =>
             Trace(call) = <<<<"goto", 0>>>> \o StepActs(play, call.idx - 1) \o
                           SubSeq(StepActs(play, call.idx),
                                  Len(StepActs(play, call.idx - 1)) + 1,
                                  Len(StepActs(play, call.idx - 1)) + call.sub)
        /\ call.idx = 0 => Trace(call) = <<<<"goto", 0>>>>
        /\ call.outcome = "returned" =>
             Trace(call) = <<<<"goto", 0>>>> \o StepActs(play, Len(play))
        /\ \A i \in DOMAIN play :
             (play[i].type = "bogus" /\ call.idx >= i) =>
               /\ call.idx = i
               /\ call.rejected \in {"UnknownStep", "PageNotInitialized"}
        /\ call.rejected # "none" =>
             /\ call.pc \in {"awaitStep", "done"}
             /\ call.outcome # "returned"
             /\ call.outcome = "raised" => call.error = call.rejected
        /\ call.outcome = "raised" =>
             /\ call.idx >= 1 => call.error = call.rejected
             /\ \A k \in DOMAIN call.acts : call.acts[k][3] <= call.idx

(* A play of two steps has raised at its first step, of unknown type, and  *)
(* its second step, which asks for an operation, was not executed.         *)
C33_Witness ==
  \E c \in Plays :
    /\ Len(ctlCalls[c].play) = 2
    /\ ctlCalls[c].play[1].type = "bogus"
    /\ Operations(ctlCalls[c].play[2]) # <<>>
    /\ ctlCalls[c].outcome = "raised"
    /\ ctlCalls[c].error = "UnknownStep"
    /\ Trace(ctlCalls[c]) = <<<<"goto", 0>>>>

====
